---- MODULE Spec2Model ----
(***************************************************************************)
(* Device state synchronisation and reliable command delivery of the       *)
(* CleanRoute backend (backend/app/db.py, mqtt_commands.py,                *)
(* mqtt_ingest.py, api.py).                                                *)
(*                                                                         *)
(* The persistent state is the PostgreSQL tables; every db.py function     *)
(* runs one committed statement, so each is one atomic step.  A sweep      *)
(* (retry_pending_commands, check_device_heartbeats) reads its rows once   *)
(* and then acts on them one by one; other handlers and other service      *)
(* instances interleave between the read and each iteration.               *)
(*                                                                         *)
(* Timestamps are kept relative to the clock: a timestamp column holds the *)
(* number of time units elapsed since the instant it records (0 = NOW()),  *)
(* counted up to Horizon.  The code compares a timestamp only with         *)
(* now - d, d an age a sweep is called with, and Horizon exceeds every     *)
(* such age: nothing the code decides is lost, and time never runs out.    *)
(***************************************************************************)
EXTENDS Integers, FiniteSets, Sequences, TLC

\* ------------------------------------------------------------------ bounds
MaxCommands == 2

\* ------------------------------------------------------- program constants
\* max_retries INT DEFAULT 3 (create_pending_command never sets it)
DefaultMaxRetries == 3

\* ------------------------------------------------------------ input sets
Instances == {"i1", "i2"}
Bins == {"B001", "B002"}
\* every bin_id of the fleet; the bins beyond Bins only take part in zone fan-out
BinIds == Bins \cup {"B003", "B004", "B005"}
CommandTypes == {"wake_up"}
NULL == "NULL"
Payloads == {"params"}
AckErrors == {NULL, "device error"}
\* max_age_seconds / timeout_minutes a sweep may be called with, in time units:
\* a row is older than the age once a Tick has passed since its timestamp.
MaxAges == {0}
SetMax(S) == CHOOSE x \in S : \A y \in S : y <= x
\* ages beyond every age a sweep asks for are not told apart
Horizon == SetMax(MaxAges) + 1
CommandIds == 1..MaxCommands

\* NOW(), and one time unit passing over a stored timestamp.
NOW == 0
\* a timestamp column that is NULL
NullTs == -1
Aged(ts) == IF ts = NullTs THEN NullTs ELSE IF ts < Horizon THEN ts + 1 ELSE ts
\* ts < now - d for a stored timestamp ts (false when ts is NULL, as in SQL)
Before(ts, d) == ts # NullTs /\ ts > d

\* a key that is not in a JSON object
Absent == -1
\* A message the listener handled: on_message's bin_id, message_type, payload.
Inbound(b, message_type, payload) ==
    [bin_id |-> b, message_type |-> message_type, payload |-> payload]

\* No row with this command_id in command_acknowledgments.
NoRow == [status |-> "absent"]

VARIABLES
    command_acknowledgments,  \* table: command_id -> row or NoRow
    commands_log,             \* table commands_log (append-only, never read here): rows added by the last step
    command_client,           \* per instance: module global command_client
    pending,                  \* per instance: rows still to be visited by retry_pending_commands
    published,                \* messages handed to the broker by the last step
    bins,                     \* table bins: bin_id -> row
    device_heartbeats,        \* table device_heartbeats: the rows in id order
    stale_devices,            \* per instance: rows still to be visited by check_device_heartbeats
    received,                 \* device messages and shadow requests the last step handled
    device_shadow,            \* table device_shadow: bin_id -> row or NoShadow
    shadow_delta,             \* what get_device_shadow_delta returned, while the shadows stay as it read them
    zone_run,                 \* per instance: collection endpoint and its zone fan-out in progress
    zone_report,              \* per instance: dictionary the last zone fan-out returned
    collection_sessions,      \* table collection_sessions: id -> row or NoSession
    firmware_updates,         \* table firmware_updates: id -> row or NoUpdate
    telemetry,                \* table telemetry (append-only): rows added by the last step
    latest_telemetry,         \* table telemetry as get_zone_bins_status reads it: bin_id -> its row of latest ts
    send_result               \* how the call of send_command in the last step ended ("none": no call)

shadow_vars == <<device_shadow, shadow_delta>>
zone_vars == <<zone_run, zone_report>>

vars == <<command_acknowledgments, commands_log, command_client, pending,
          published, bins, device_heartbeats, stale_devices, received,
          shadow_vars, zone_vars, collection_sessions, firmware_updates,
          telemetry, latest_telemetry, send_result>>

\* A step of command delivery or of the liveness monitor touches no
\* telemetry, shadow, zone run, collection session or firmware update, and,
\* acks and heartbeats apart, handles no device message.
NoOtherTable ==
    /\ telemetry' = {} /\ UNCHANGED latest_telemetry
    /\ UNCHANGED <<shadow_vars, zone_vars, collection_sessions, firmware_updates>>
NothingElse == received' = {} /\ NoOtherTable


\* ------------------------------------------------------------- db.py rows
Exists(t, id) == t[id] # NoRow

\* db.py create_pending_command: INSERT (command_id, bin_id, command_type,
\* payload); sent_at, retry_count, max_retries, status take the column defaults.
create_pending_command(t, id, bin, ctype, payload) ==
    [t EXCEPT ![id] = [bin_id |-> bin, command_type |-> ctype, payload |-> payload,
                       sent_at |-> NOW, ack_received_at |-> NullTs,
                       retry_count |-> 0, max_retries |-> DefaultMaxRetries,
                       status |-> "pending", error_message |-> NULL]]

\* acknowledge_command treating an ack for an acknowledged command as an error
\* (the status written depends on the status found).
acknowledge_command_dup(t, id, success, error_message) ==
    IF id \in DOMAIN t /\ Exists(t, id)
    THEN [t EXCEPT ![id].ack_received_at = NOW,
                   ![id].status = IF success /\ t[id].status # "acknowledged"
                                  THEN "acknowledged" ELSE "failed",
                   ![id].error_message = error_message]
    ELSE t

\* an ack that also restarts the retry clock
acknowledge_command_restamp(t, id, success, error_message) ==
    IF id \in DOMAIN t /\ Exists(t, id)
    THEN [t EXCEPT ![id].ack_received_at = NOW, ![id].sent_at = NOW,
                   ![id].status = IF success THEN "acknowledged" ELSE "failed",
                   ![id].error_message = error_message]
    ELSE t

\* an ack written as an upsert: a command_id without a row gets one
acknowledge_command_upsert(t, id, success, error_message) ==
    IF id \in DOMAIN t
    THEN [t EXCEPT ![id] = [bin_id |-> NULL, command_type |-> NULL, payload |-> NULL,
                            sent_at |-> NullTs, ack_received_at |-> NOW,
                            retry_count |-> 0, max_retries |-> DefaultMaxRetries,
                            status |-> IF success THEN "acknowledged" ELSE "failed",
                            error_message |-> error_message]]
    ELSE t

\* db.py acknowledge_command: UPDATE ... WHERE command_id = %s (no status guard).
\* ack_received_at is written here and read by no code: the row keeps only
\* whether it is NULL (NullTs) or stamped (NOW).
acknowledge_command(t, id, success, error_message) ==
    IF id \in DOMAIN t /\ Exists(t, id)
    THEN [t EXCEPT ![id].ack_received_at = NOW,
                   ![id].status = IF success THEN "acknowledged" ELSE "failed",
                   ![id].error_message = error_message]
    ELSE t

\* get_pending_commands without the retry_count < max_retries condition.
get_pending_commands_any_retry(t, older_than_seconds) ==
    {id \in DOMAIN t :
        /\ Exists(t, id)
        /\ t[id].status = "pending"
        /\ Before(t[id].sent_at, older_than_seconds)}

\* db.py get_pending_commands (bin_id = None branch): the selected rows.
get_pending_commands(t, older_than_seconds) ==
    {id \in DOMAIN t :
        /\ Exists(t, id)
        /\ t[id].status = "pending"
        /\ Before(t[id].sent_at, older_than_seconds)
        /\ t[id].retry_count < t[id].max_retries}

\* the increment without `sent_at = NOW()`
increment_command_retry_count_only(t, id) ==
    IF Exists(t, id) THEN [t EXCEPT ![id].retry_count = @ + 1] ELSE t

\* db.py increment_command_retry: UPDATE ... WHERE command_id = %s.
increment_command_retry(t, id) ==
    IF Exists(t, id)
    THEN [t EXCEPT ![id].retry_count = @ + 1, ![id].sent_at = NOW]
    ELSE t

\* db.py mark_command_failed: UPDATE ... WHERE command_id = %s.
mark_command_failed(t, id, error_message) ==
    IF Exists(t, id)
    THEN [t EXCEPT ![id].status = "failed", ![id].error_message = error_message]
    ELSE t

\* ------------------------------------------------ mqtt_commands.send_command
\* What one call of send_command can do, given the instance's client:
\*   "ok"             publish returns MQTT_ERR_SUCCESS
\*   "rejected"       publish returns another rc (no connection, queue full)
\*   "publish_raises" publish raises; caught, returns False
\*   "init_raises"    init_command_client raises (certificate missing, connect
\*                    refused); the exception leaves send_command
\* init_command_client assigns the global before it connects, so after a failed
\* init the client exists but was never connected nor its loop started.
Outcomes(client) ==
    CASE client = "None" -> {"ok", "rejected", "publish_raises", "init_raises"}
      [] client = "connected" -> {"ok", "rejected", "publish_raises"}
      [] OTHER -> {"rejected", "publish_raises"}

AllOutcomes == {"ok", "rejected", "publish_raises", "init_raises"}

init_command_client(client, o) ==
    IF client = "None"
    THEN (IF o = "init_raises" THEN "unconnected" ELSE "connected")
    ELSE client

\* How a call of send_command ends: it returns result.rc == MQTT_ERR_SUCCESS,
\* returns False from its except clause, or the exception of
\* init_command_client, raised before the try, leaves it.
Result(o) ==
    CASE o = "ok" -> "True"
      [] o = "init_raises" -> "raised"
      [] OTHER -> "False"

\* The message send_command hands to publish(): topic bin, command, params.
Message(bin, ctype, params) == [bin_id |-> bin, command |-> ctype, params |-> params]

\* send_command's effect on published, commands_log and command_client, and
\* how it ended.
send_command(i, bin, ctype, params, o) ==
    /\ o \in Outcomes(command_client[i])
    /\ command_client' = [command_client EXCEPT ![i] = init_command_client(@, o)]
    /\ published' = IF o = "ok" THEN {Message(bin, ctype, params)} ELSE {}
    /\ commands_log' = IF o \in {"ok", "rejected"} THEN {Message(bin, ctype, params)} ELSE {}
    /\ send_result' = Result(o)

\* -------------------------------------------------------------- dispatch
NextCommandId == Cardinality({id \in CommandIds : Exists(command_acknowledgments, id)}) + 1

\* params of a published message: the caller's payload, and the command_id
\* send_command_with_ack adds to it (NoCommandId when the params carry none).
NoCommandId == 0
Params(payload, id) == [payload |-> payload, command_id |-> id]

\* mqtt_commands.send_command_with_ack
send_command_with_ack(i, bin, ctype, payload, o) ==
    /\ NextCommandId \in CommandIds
    /\ command_acknowledgments' =
           create_pending_command(command_acknowledgments, NextCommandId, bin, ctype, payload)
    /\ send_command(i, bin, ctype, Params(payload, NextCommandId), o)
    /\ UNCHANGED <<pending, bins, stale_devices>>
    /\ NothingElse
    /\ UNCHANGED device_heartbeats

\* mqtt_ingest.handle_command_ack; NoCommandId stands for a payload without one.
handle_command_ack(bin, command_id, success, error_message) ==
    /\ received' = {Inbound(bin, "ack", [command_id |-> command_id, success |-> success,
                                         error |-> error_message])}
    /\ IF command_id = NoCommandId
       THEN UNCHANGED command_acknowledgments
       ELSE command_acknowledgments' =
                acknowledge_command(command_acknowledgments, command_id, success, error_message)
    /\ published' = {} /\ commands_log' = {} /\ send_result' = "none" /\ UNCHANGED device_heartbeats
    /\ UNCHANGED <<command_client, pending, bins, stale_devices>>
    /\ NoOtherTable

\* ------------------------------------------- mqtt_commands.retry_pending_commands
\* A row as the sweep read it.
Snapshot(t, id) == [command_id |-> id, status |-> t[id].status, sent_at |-> t[id].sent_at,
                    retry_count |-> t[id].retry_count, max_retries |-> t[id].max_retries,
                    bin_id |-> t[id].bin_id, command_type |-> t[id].command_type,
                    payload |-> t[id].payload]

\* pending = db.get_pending_commands(older_than_seconds=max_age_seconds)
RetryRead(i, max_age_seconds) ==
    /\ pending[i] = {}
    /\ pending' = [pending EXCEPT ![i] =
           {Snapshot(command_acknowledgments, id) :
               id \in get_pending_commands(command_acknowledgments, max_age_seconds)}]
    /\ published' = {} /\ commands_log' = {} /\ send_result' = "none" /\ UNCHANGED device_heartbeats
    /\ UNCHANGED <<command_acknowledgments, command_client, bins, stale_devices>>
    /\ NothingElse

\* One iteration of `for cmd in pending`.  The test is on the row as read;
\* get_pending_commands returns only rows with retry_count < max_retries.
RetryStep(i, cmd, o) ==
    /\ cmd \in pending[i]
    /\ IF cmd.retry_count >= cmd.max_retries
       THEN /\ command_acknowledgments' =
                   mark_command_failed(command_acknowledgments, cmd.command_id,
                                       "Max retries exceeded")
            /\ pending' = [pending EXCEPT ![i] = @ \ {cmd}]
            /\ published' = {} /\ commands_log' = {} /\ send_result' = "none"
            /\ UNCHANGED command_client
       ELSE /\ send_command(i, cmd.bin_id, cmd.command_type, Params(cmd.payload, NoCommandId), o)
            /\ command_acknowledgments' =
                   IF o = "ok"
                   THEN increment_command_retry(command_acknowledgments, cmd.command_id)
                   ELSE command_acknowledgments
            \* an exception leaving send_command ends the whole sweep
            /\ pending' = [pending EXCEPT ![i] = IF o = "init_raises" THEN {} ELSE @ \ {cmd}]
    /\ UNCHANGED device_heartbeats
    /\ UNCHANGED <<bins, stale_devices>>
    /\ NothingElse

\* ------------------------------------------------------------ table bins
\* No row with this bin_id in bins.
NoBin == [device_status |-> "absent"]
Registered(t, b) == t[b] # NoBin

\* db.py register_device: INSERT ... device_status 'offline' (last_seen NULL,
\* sleep_mode DEFAULT TRUE); ON CONFLICT updates only the owner columns.
register_device(t, b) ==
    IF Registered(t, b)
    THEN t
    ELSE [t EXCEPT ![b] = [last_seen |-> NullTs, device_status |-> "offline",
                           sleep_mode |-> TRUE, user_id |-> "user"]]

\* heartbeats followed (the table itself has no bound)
MaxHeartbeats == 2

\* a table that keeps one row per device, the newest
heartbeat_insert_latest(t, b, rssi) ==
    Append(SelectSeq(t, LAMBDA row : row.bin_id # b), [bin_id |-> b, rssi |-> rssi])

\* db.py record_heartbeat, first statement: INSERT INTO device_heartbeats
\* (bin_id, rssi, ...); received_at is written and never read: left out.
heartbeat_insert(t, b, rssi) == Append(t, [bin_id |-> b, rssi |-> rssi])

\* db.py record_heartbeat, second statement:
\* UPDATE bins SET last_seen = NOW(), device_status = 'online' WHERE bin_id = %s
heartbeat_update(t, b) ==
    IF Registered(t, b)
    THEN [t EXCEPT ![b].last_seen = NOW, ![b].device_status = "online"]
    ELSE t

\* UPDATE bins SET sleep_mode = %s WHERE bin_id = %s (wake_up_bin, sleep_bin)
set_sleep_mode(t, b, sleep_mode) ==
    IF Registered(t, b) THEN [t EXCEPT ![b].sleep_mode = sleep_mode] ELSE t

\* the selection without `OR last_seen IS NULL`
get_devices_needing_heartbeat_seen_only(t, timeout_minutes) ==
    {b \in DOMAIN t :
        /\ Registered(t, b)
        /\ t[b].sleep_mode = FALSE
        /\ Before(t[b].last_seen, timeout_minutes)
        /\ t[b].device_status # "offline"}

\* db.py get_devices_needing_heartbeat: the selected bin_ids.
get_devices_needing_heartbeat(t, timeout_minutes) ==
    {b \in DOMAIN t :
        /\ Registered(t, b)
        /\ t[b].sleep_mode = FALSE
        /\ (Before(t[b].last_seen, timeout_minutes) \/ t[b].last_seen = NullTs)
        /\ t[b].device_status # "offline"}

\* an offline write that also stamps last_seen
mark_offline_stamped(t, b) ==
    IF Registered(t, b)
    THEN [t EXCEPT ![b].device_status = "offline", ![b].last_seen = NOW]
    ELSE t

\* UPDATE bins SET device_status = 'offline' WHERE bin_id = %s
mark_offline(t, b) ==
    IF Registered(t, b) THEN [t EXCEPT ![b].device_status = "offline"] ELSE t

\* ------------------------------------------------------- liveness handlers
\* api.py provisioning: db.register_device
RegisterDevice(b) ==
    /\ ~Registered(bins, b)
    /\ bins' = register_device(bins, b)
    /\ published' = {} /\ commands_log' = {} /\ send_result' = "none" /\ UNCHANGED device_heartbeats
    /\ UNCHANGED <<command_acknowledgments, command_client, pending, stale_devices>>
    /\ NothingElse

\* mqtt_ingest.handle_heartbeat -> db.record_heartbeat.  The INSERT into
\* device_heartbeats references bins(bin_id): for an unknown bin it raises,
\* handle_heartbeat logs the error and nothing is written.
handle_heartbeat(b, payload) ==
    /\ Len(device_heartbeats) < MaxHeartbeats
    /\ received' = {Inbound(b, "heartbeat", payload)}
    /\ bins' = heartbeat_update(bins, b)
    /\ device_heartbeats' = IF Registered(bins, b)
                            THEN heartbeat_insert(device_heartbeats, b, payload.rssi)
                            ELSE device_heartbeats
    /\ published' = {} /\ commands_log' = {} /\ send_result' = "none"
    /\ UNCHANGED <<command_acknowledgments, command_client, pending, stale_devices>>
    /\ NoOtherTable

\* mqtt_commands.wake_up_bin: UPDATE bins ... sleep_mode = FALSE, then send_command
wake_up_bin(i, b, o) ==
    /\ bins' = set_sleep_mode(bins, b, FALSE)
    /\ send_command(i, b, "wake_up", Params("wake", NoCommandId), o)

\* mqtt_commands.sleep_bin: UPDATE bins SET sleep_mode = TRUE, then send_command
sleep_bin(i, b, o) ==
    /\ bins' = set_sleep_mode(bins, b, TRUE)
    /\ send_command(i, b, "sleep", Params(NULL, NoCommandId), o)

\* mqtt_commands.check_device_heartbeats:
\* stale_devices = db.get_devices_needing_heartbeat(timeout_minutes)
StaleRead(i, timeout_minutes) ==
    /\ stale_devices[i] = {}
    /\ stale_devices' = [stale_devices EXCEPT ![i] =
                             get_devices_needing_heartbeat(bins, timeout_minutes)]
    /\ published' = {} /\ commands_log' = {} /\ send_result' = "none" /\ UNCHANGED device_heartbeats
    /\ UNCHANGED <<command_acknowledgments, command_client, pending, bins>>
    /\ NothingElse

\* One iteration of `for device in stale_devices`.
StaleStep(i, b) ==
    /\ b \in stale_devices[i]
    /\ bins' = mark_offline(bins, b)
    /\ stale_devices' = [stale_devices EXCEPT ![i] = @ \ {b}]
    /\ published' = {} /\ commands_log' = {} /\ send_result' = "none" /\ UNCHANGED device_heartbeats
    /\ UNCHANGED <<command_acknowledgments, command_client, pending>>
    /\ NothingElse

\* db.py upsert_bin: INSERT (bin_id, lat, lon, last_seen, sleep_mode FALSE)
\* ON CONFLICT DO UPDATE SET last_seen = EXCLUDED.last_seen, sleep_mode = FALSE.
\* A new row takes the column default of device_status (given as default)
\* and has no owner.
upsert_bin(t, b, last_seen, default) ==
    IF Registered(t, b)
    THEN [t EXCEPT ![b].last_seen = last_seen, ![b].sleep_mode = FALSE]
    ELSE [t EXCEPT ![b] = [last_seen |-> last_seen, device_status |-> default,
                           sleep_mode |-> FALSE, user_id |-> NULL]]

\* update_device_status leaving the row as it is
update_device_status_skipped(t, b, status) == t

\* db.py update_device_status: UPDATE bins SET device_status = %s WHERE bin_id = %s
update_device_status(t, b, status) ==
    IF Registered(t, b) THEN [t EXCEPT ![b].device_status = status] ELSE t

\* ------------------------------------------------------ JSON documents
\* A JSON object over the keys followed here; true is 1, as Python
\* compares it.
Keys == {"fill_pct", "sleep", "provisioned"}
Values == {1, 42}
EmptyDoc == [k \in Keys |-> Absent]
Doc(k, v) == [EmptyDoc EXCEPT ![k] = v]
Has(d, k) == d[k] # Absent
\* a write that replaces the stored document by the new one
MergeReplace(a, b) == b

\* JSONB a || b: the keys of b replace or extend those of a.
Merge(a, b) == [k \in Keys |-> IF Has(b, k) THEN b[k] ELSE a[k]]

\* ------------------------------------------------- table device_shadow
\* No row with this bin_id in device_shadow.
NoShadow == [version |-> 0]
HasShadow(t, b) == t[b] # NoShadow

\* db.py update_device_shadow_reported: one upsert.  bin_id REFERENCES bins:
\* without a bins row (rows: table bins) the INSERT raises and writes nothing.
\* last_reported_at and last_desired_at are written and never read: left out.
update_device_shadow_reported(t, rows, b, state) ==
    IF ~Registered(rows, b)
    THEN t
    ELSE IF HasShadow(t, b)
         THEN [t EXCEPT ![b].reported_state = Merge(@, state), ![b].version = @ + 1]
         ELSE [t EXCEPT ![b] = [reported_state |-> state, desired_state |-> EmptyDoc,
                                version |-> 1]]

\* the desired-state upsert without version = device_shadow.version + 1
update_device_shadow_desired_same_version(t, rows, b, state) ==
    IF ~Registered(rows, b)
    THEN t
    ELSE IF HasShadow(t, b)
         THEN [t EXCEPT ![b].desired_state = Merge(@, state)]
         ELSE [t EXCEPT ![b] = [reported_state |-> EmptyDoc, desired_state |-> state,
                                version |-> 1]]

\* db.py update_device_shadow_desired: the same upsert on desired_state.
update_device_shadow_desired(t, rows, b, state) ==
    IF ~Registered(rows, b)
    THEN t
    ELSE IF HasShadow(t, b)
         THEN [t EXCEPT ![b].desired_state = Merge(@, state), ![b].version = @ + 1]
         ELSE [t EXCEPT ![b] = [reported_state |-> EmptyDoc, desired_state |-> state,
                                version |-> 1]]

\* get_device_shadow_delta returned None
NoDelta == [bin_id |-> NULL]

\* the loop taking only the keys reported lacks
RECURSIVE DeltaLoopMissingOnly(_, _, _, _)
DeltaLoopMissingOnly(keys, reported, desired, delta) ==
    IF keys = {}
    THEN delta
    ELSE LET key == CHOOSE k \in keys : TRUE
         IN DeltaLoopMissingOnly(keys \ {key}, reported, desired,
                                 IF ~Has(reported, key)
                                 THEN [delta EXCEPT ![key] = desired[key]]
                                 ELSE delta)

\* The loop of get_device_shadow_delta: for key, value in desired.items():
\* if key not in reported or reported[key] != value: delta[key] = value
RECURSIVE DeltaLoop(_, _, _, _)
DeltaLoop(keys, reported, desired, delta) ==
    IF keys = {}
    THEN delta
    ELSE LET key == CHOOSE k \in keys : TRUE
             value == desired[key]
         IN DeltaLoop(keys \ {key}, reported, desired,
                      IF ~Has(reported, key) \/ reported[key] # value
                      THEN [delta EXCEPT ![key] = value]
                      ELSE delta)

\* db.py get_device_shadow_delta
get_device_shadow_delta(t, b) ==
    IF ~HasShadow(t, b)
    THEN NoDelta
    ELSE LET delta == DeltaLoop({k \in Keys : Has(t[b].desired_state, k)},
                                t[b].reported_state, t[b].desired_state, EmptyDoc)
         IN [bin_id |-> b, delta |-> delta, has_delta |-> delta # EmptyDoc,
             version |-> t[b].version]

\* ------------------------------------------------------------ telemetry
\* ts of a telemetry payload that date_parser.parse rejects
BadTs == -2
\* the checks without `if not (0 <= fill_pct <= 100)`
ValidTelemetryAnyFill(payload) ==
    /\ payload.ts # NullTs
    /\ payload.fill_pct # Absent
    /\ payload.ts # BadTs

\* the checks of handle_telemetry: ts and fill_pct present, 0 <= fill_pct <= 100,
\* ts parses
ValidTelemetry(payload) ==
    /\ payload.ts # NullTs
    /\ payload.fill_pct # Absent
    /\ 0 <= payload.fill_pct /\ payload.fill_pct <= 100
    /\ payload.ts # BadTs

\* shadow versions followed (the counter itself has no bound)
MaxVersion == 3
Unbumped(b) == ~HasShadow(device_shadow, b) \/ device_shadow[b].version < MaxVersion

\* No row of this bin_id in telemetry.
NoTelemetry == [ts |-> NullTs, fill_pct |-> Absent]

\* db.py get_zone_bins_status, SELECT DISTINCT ON (bin_id) bin_id, fill_pct
\* FROM telemetry ORDER BY bin_id, ts DESC, after a row (ts, b, fill_pct) is
\* inserted: what the subquery may return from then on.  The row of the
\* latest ts wins; among rows of equal ts the database returns any.
distinct_on_bin_id(t, b, ts, fill_pct) ==
    LET inserted == [t EXCEPT ![b] = [ts |-> ts, fill_pct |-> fill_pct]]
    IN IF t[b] = NoTelemetry \/ ts < t[b].ts
       THEN {inserted}
       ELSE IF ts = t[b].ts THEN {t, inserted} ELSE {t}

\* db.py insert_telemetry: the row inserted
insert_telemetry(ts, b, fill_pct) == [ts |-> ts, bin_id |-> b, fill_pct |-> fill_pct]

\* mqtt_ingest.handle_telemetry: a payload failing a check is dropped;
\* otherwise upsert_bin, update_device_status online, insert_telemetry, and
\* the fill level merged into the reported state.
handle_telemetry(b, payload, default) ==
    /\ Unbumped(b)
    /\ received' = {Inbound(b, "telemetry", payload)}
    /\ IF ValidTelemetry(payload)
       THEN /\ bins' = update_device_status(upsert_bin(bins, b, payload.ts, default),
                                            b, "online")
            /\ telemetry' = {insert_telemetry(payload.ts, b, payload.fill_pct)}
            /\ latest_telemetry' \in distinct_on_bin_id(latest_telemetry, b, payload.ts,
                                                       payload.fill_pct)
            /\ device_shadow' = update_device_shadow_reported(
                                    device_shadow, bins', b, Doc("fill_pct", payload.fill_pct))
       ELSE UNCHANGED <<bins, device_shadow, latest_telemetry>> /\ telemetry' = {}
    /\ shadow_delta' = NoDelta
    /\ published' = {} /\ commands_log' = {} /\ send_result' = "none" /\ UNCHANGED device_heartbeats
    /\ UNCHANGED <<command_acknowledgments, command_client, pending, stale_devices,
                   zone_vars, collection_sessions, firmware_updates>>

\* What json.loads leaves of a payload that is not JSON: nothing.
Undecodable == [decoded |-> FALSE]
\* mqtt_ingest.on_message, except json.JSONDecodeError: the error is logged
\* and no handler runs.
on_message_undecodable(b, message_type) ==
    /\ received' = {Inbound(b, message_type, Undecodable)}
    /\ published' = {} /\ commands_log' = {} /\ send_result' = "none"
    /\ UNCHANGED <<command_acknowledgments, command_client, pending, bins,
                   device_heartbeats, stale_devices>>
    /\ NoOtherTable

\* ------------------------------------------------------ shadow handlers
\* What a shadow handler leaves alone.
OnlyShadow ==
    /\ UNCHANGED device_heartbeats /\ telemetry' = {} /\ UNCHANGED latest_telemetry
    /\ UNCHANGED <<command_acknowledgments, pending, stale_devices,
                   zone_vars, collection_sessions, firmware_updates>>

\* mqtt_ingest.handle_shadow_reported: the payload is merged as it came.
handle_shadow_reported(b, payload) ==
    /\ Unbumped(b)
    /\ received' = {Inbound(b, "shadow", payload)}
    /\ device_shadow' = update_device_shadow_reported(device_shadow, bins, b, payload)
    /\ shadow_delta' = NoDelta
    /\ published' = {} /\ commands_log' = {} /\ send_result' = "none"
    /\ UNCHANGED <<bins, command_client>>
    /\ OnlyShadow

\* api.py update_device_shadow -> mqtt_commands.update_device_shadow_desired:
\* db.update_device_shadow_desired, then send_command "shadow_delta" with the
\* desired_state of the request.  When the upsert raises nothing is sent.
update_device_shadow(i, b, desired_state, o) ==
    /\ Unbumped(b)
    /\ received' = {Inbound(b, "desired", desired_state)}
    /\ device_shadow' = update_device_shadow_desired(device_shadow, bins, b, desired_state)
    /\ shadow_delta' = NoDelta
    /\ IF Registered(bins, b)
       THEN send_command(i, b, "shadow_delta", Params(desired_state, NoCommandId), o)
       ELSE /\ o \in Outcomes(command_client[i])
            /\ published' = {} /\ commands_log' = {} /\ send_result' = "none"
            /\ UNCHANGED command_client
    /\ UNCHANGED bins
    /\ OnlyShadow

\* api.py provision_device: upsert_bin when the request has a location
\* (last_seen = utcnow), then update_device_shadow_reported {"provisioned": True, ...}.
provision_device(b, located, default) ==
    /\ Unbumped(b)
    /\ received' = {Inbound(b, "provision", located)}
    /\ bins' = IF located THEN upsert_bin(bins, b, NOW, default) ELSE bins
    /\ device_shadow' = update_device_shadow_reported(device_shadow, bins', b,
                                                      Doc("provisioned", 1))
    /\ shadow_delta' = NoDelta
    /\ published' = {} /\ commands_log' = {} /\ send_result' = "none"
    /\ UNCHANGED command_client
    /\ OnlyShadow

\* api.py get_device_shadow: db.get_device_shadow_delta(bin_id)
get_device_shadow(b) ==
    /\ shadow_delta' = get_device_shadow_delta(device_shadow, b)
    /\ received' = {}
    /\ published' = {} /\ commands_log' = {} /\ send_result' = "none"
    /\ UNCHANGED <<bins, command_client, device_shadow>>
    /\ OnlyShadow

\* ------------------------------------------- table collection_sessions
\* Rows in id order (id SERIAL): the row of id n is collection_sessions[n].
NoSession == 0
\* collection sessions followed (the table itself has no bound)
MaxSessions == 2

\* db.py start_collection_session: INSERT (zone_id, zone_name, bins_total,
\* status 'started', admin_user); bins_responded and bins_collected take the
\* column default 0, checked_at, finished_at and ended_at are NULL.
\* started_at (DEFAULT NOW()) grows with the id and is left out.
start_collection_session(t, zone_id, bins_total) ==
    Append(t, [zone_id |-> zone_id, status |-> "started", bins_total |-> bins_total,
               bins_responded |-> 0, bins_collected |-> 0,
               checked_at |-> NullTs, finished_at |-> NullTs, ended_at |-> NullTs])

\* db.py update_collection_session_status: UPDATE ... SET status = %s, the
\* timestamp of the status = NOW(), and bins_responded / bins_collected when
\* passed (Absent: not passed) ... WHERE id = %s.  The timestamps are written
\* here and read by no code: a row keeps only whether each is NULL (NullTs)
\* or stamped (NOW).
update_collection_session_status(t, session_id, status, bins_responded, bins_collected) ==
    IF session_id \in DOMAIN t
    THEN [t EXCEPT ![session_id].status = status,
                   ![session_id].checked_at = IF status = "checked" THEN NOW ELSE @,
                   ![session_id].finished_at = IF status = "finished" THEN NOW ELSE @,
                   ![session_id].ended_at = IF status = "ended" THEN NOW ELSE @,
                   ![session_id].bins_responded =
                       IF bins_responded # Absent THEN bins_responded ELSE @,
                   ![session_id].bins_collected =
                       IF bins_collected # Absent THEN bins_collected ELSE @]
    ELSE t

\* db.py get_active_collection_session: WHERE zone_id = %s AND status != 'ended'
\* ORDER BY started_at DESC LIMIT 1; the id of the row, NoSession for None.
get_active_collection_session(t, zone_id) ==
    LET active == {n \in DOMAIN t : t[n].zone_id = zone_id /\ t[n].status # "ended"}
    IN IF active = {} THEN NoSession ELSE SetMax(active)

\* ---------------------------------------------------------- zone fan-out
Zones == {"colombo"}
\* The order in which SELECT bin_id FROM bins returns the rows; nothing in
\* the loops depends on it.
BinOrder == <<"B001", "B002", "B003", "B004", "B005">>
IsRow(b) == Registered(bins, b)
\* mqtt_commands.get_bins_in_zone: the rows whose bin_id has a prefix of the
\* zone ("colombo": COL, B0).
get_bins_in_zone(zone_id) == SelectSeq(BinOrder, IsRow)

\* timedelta(hours=2) of get_zone_bins_status in time units: a last_seen is
\* inside the window until a time unit has passed.
RecentWindow == 1
\* is_recent = last_seen and last_seen > threshold, with any last_seen
is_recent_any_age(last_seen) == last_seen # NullTs
\* is_recent = last_seen and last_seen > threshold
is_recent(last_seen) == last_seen # NullTs /\ last_seen < RecentWindow

\* db.py get_zone_bins_status: the members of the zone read again, each with
\* the fill_pct of its latest telemetry row (None when it has none or when
\* the value is 0: `float(...) if row['fill_pct'] else None`) and whether
\* its last_seen is recent.
get_zone_bins_status(zone_id) ==
    LET members == {get_bins_in_zone(zone_id)[n] : n \in DOMAIN get_bins_in_zone(zone_id)}
    IN [total |-> Cardinality(members),
        responded |-> Cardinality({b \in members : is_recent(bins[b].last_seen)}),
        bins |-> [b \in members |->
                    [fill_pct |-> IF latest_telemetry[b].fill_pct = 0
                                  THEN Absent ELSE latest_telemetry[b].fill_pct,
                     responded |-> is_recent(bins[b].last_seen)]]]

\* api.py finish_zone_collection: missed_bins, the responded bins whose
\* fill_pct is above 70.
MissedFill == 70
missed_bins(status) ==
    {b \in DOMAIN status.bins :
        /\ status.bins[b].fill_pct # Absent
        /\ status.bins[b].fill_pct > MissedFill
        /\ status.bins[b].responded}

\* No collection endpoint running on the instance / no fan-out has returned.
NoRun == [endpoint |-> "none"]
NoReport == [command |-> "none"]

\* The zone command each collection endpoint fans out.
ZoneCommand(endpoint) ==
    CASE endpoint = "start" -> "wake_up"
      [] endpoint = "end" -> "sleep"
      [] OTHER -> "get_status"

\* the loop body of request_zone_status, which keeps no failed list
Count(run, bin_id, ok) ==
    [run EXCEPT !.next = @ + 1, !.success_count = IF ok THEN @ + 1 ELSE @]
\* a loop body that forgets the members it could not reach
TallySucceededOnly(run, bin_id, ok) == Count(run, bin_id, ok)

\* The loop body of wake_up_zone / sleep_zone around the dispatch to bin_id:
\* success_count += 1 when it returned True, failed_bins.append(bin_id) when
\* it returned False or raised.
Tally(run, bin_id, ok) ==
    [run EXCEPT !.next = @ + 1,
                !.success_count = IF ok THEN @ + 1 ELSE @,
                !.failed_bins = IF ok THEN @ ELSE Append(@, bin_id)]

\* mqtt_commands.request_status
request_status(i, b, o) == send_command(i, b, "get_status", Params(NULL, NoCommandId), o)

\* The message published to cleanroute/zones/<zone_id>/command.
ZoneMessage(zone_id, ctype) == [zone_id |-> zone_id, command |-> ctype]

\* The dictionary a zone fan-out returns (bins_awakened / bins_asleep /
\* bins_requested is succeeded here; "No bins found" is total_bins 0).
Report(run) ==
    [command |-> ZoneCommand(run.endpoint),
     success |-> run.success_count > 0,
     succeeded |-> run.success_count,
     bins_failed |-> run.failed_bins,
     total_bins |-> Len(run.bins)]

\* What the collection endpoints leave alone.
OnlyCollection ==
    /\ received' = {} /\ UNCHANGED device_heartbeats
    /\ telemetry' = {} /\ UNCHANGED latest_telemetry
    /\ UNCHANGED <<command_acknowledgments, pending, stale_devices, shadow_vars,
                   firmware_updates>>

\* api.py start_zone_collection / check_zone_collection /
\* finish_zone_collection / end_zone_collection, up to the first dispatch:
\* start returns at once when the zone has an active session; end reads
\* the session it will close; the fan-out reads the members of the zone.
BeginCollection(i, endpoint, zone_id) ==
    /\ zone_run[i] = NoRun
    /\ endpoint = "start" => Len(collection_sessions) < MaxSessions
    /\ LET existing == get_active_collection_session(collection_sessions, zone_id)
       IN zone_run' = [zone_run EXCEPT ![i] =
              IF endpoint = "start" /\ existing # NoSession
              THEN NoRun
              ELSE [endpoint |-> endpoint, zone_id |-> zone_id,
                    bins |-> get_bins_in_zone(zone_id), next |-> 1,
                    success_count |-> 0, failed_bins |-> <<>>,
                    session |-> IF endpoint = "end" THEN existing ELSE NoSession,
                    bins_responded |-> Absent, bins_collected |-> Absent,
                    stage |-> "loop"]]
    /\ zone_report' = [zone_report EXCEPT ![i] = NoReport]
    /\ published' = {} /\ commands_log' = {} /\ send_result' = "none"
    /\ UNCHANGED <<bins, command_client, collection_sessions>>
    /\ OnlyCollection

\* One iteration of `for bin_id in bins` in wake_up_zone, sleep_zone or
\* request_zone_status.
ZoneStep(i, o) ==
    /\ zone_run[i] # NoRun
    /\ zone_run[i].stage = "loop"
    /\ zone_run[i].next <= Len(zone_run[i].bins)
    /\ LET run == zone_run[i]
           bin_id == run.bins[run.next]
       IN CASE run.endpoint = "start" ->
                 /\ wake_up_bin(i, bin_id, o)
                 /\ zone_run' = [zone_run EXCEPT ![i] = Tally(run, bin_id, o = "ok")]
            [] run.endpoint = "end" ->
                 /\ sleep_bin(i, bin_id, o)
                 /\ zone_run' = [zone_run EXCEPT ![i] = Tally(run, bin_id, o = "ok")]
            [] OTHER ->
                 /\ request_status(i, bin_id, o)
                 /\ zone_run' = [zone_run EXCEPT ![i] = Count(run, bin_id, o = "ok")]
                 /\ UNCHANGED bins
    /\ UNCHANGED <<zone_report, collection_sessions>>
    /\ OnlyCollection

\* After the loop: the zone broadcast (published without send_command, so
\* not logged; skipped when the zone has no bins), the returned dictionary,
\* and for check and finish db.get_zone_bins_status, the counts taken from
\* it and the read of the active session.
ZoneFinish(i, o) ==
    /\ zone_run[i] # NoRun
    /\ zone_run[i].stage = "loop"
    /\ zone_run[i].next > Len(zone_run[i].bins)
    /\ o \in Outcomes(command_client[i])
    /\ LET run == zone_run[i]
           empty == Len(run.bins) = 0
           status == get_zone_bins_status(run.zone_id)
       IN /\ command_client' = IF empty THEN command_client
                               ELSE [command_client EXCEPT ![i] = init_command_client(@, o)]
          /\ published' = IF ~empty /\ o = "ok"
                          THEN {ZoneMessage(run.zone_id, ZoneCommand(run.endpoint))}
                          ELSE {}
          /\ zone_report' = [zone_report EXCEPT ![i] = Report(run)]
          /\ zone_run' = [zone_run EXCEPT ![i] =
                 IF run.endpoint = "start" /\ empty
                 THEN NoRun   \* HTTPException 404: no session is created
                 ELSE [run EXCEPT
                          !.stage = "write",
                          !.bins_responded = IF run.endpoint \in {"check", "finish"}
                                             THEN status.responded ELSE @,
                          !.bins_collected = IF run.endpoint = "finish"
                                             THEN status.responded
                                                      - Cardinality(missed_bins(status))
                                             ELSE @,
                          !.session = IF run.endpoint \in {"check", "finish"}
                                      THEN get_active_collection_session(
                                               collection_sessions, run.zone_id)
                                      ELSE @]]
    /\ commands_log' = {} /\ send_result' = "none"
    /\ UNCHANGED <<bins, collection_sessions>>
    /\ OnlyCollection

\* The session statement that ends each endpoint: start_collection_session,
\* or update_collection_session_status of the session read, if there was one.
SessionWrite(i) ==
    /\ zone_run[i] # NoRun
    /\ zone_run[i].stage = "write"
    /\ LET run == zone_run[i]
       IN collection_sessions' =
              CASE run.endpoint = "start" ->
                       start_collection_session(collection_sessions, run.zone_id,
                                                Len(run.bins))
                [] run.endpoint = "check" ->
                       update_collection_session_status(collection_sessions, run.session,
                           "checked", run.bins_responded, Absent)
                [] run.endpoint = "finish" ->
                       update_collection_session_status(collection_sessions, run.session,
                           "finished", run.bins_responded, run.bins_collected)
                [] OTHER ->
                       update_collection_session_status(collection_sessions, run.session,
                           "ended", Absent, Absent)
    /\ zone_run' = [zone_run EXCEPT ![i] = NoRun]
    /\ published' = {} /\ commands_log' = {} /\ send_result' = "none"
    /\ UNCHANGED <<bins, command_client, zone_report>>
    /\ OnlyCollection

\* --------------------------------------------- table firmware_updates
\* Rows in id order (id SERIAL); started_at grows with the id.
\* firmware update jobs followed (the table itself has no bound)
MaxUpdates == 2
Terminal == {"completed", "failed"}

\* db.py create_firmware_update: INSERT (bin_id, target_version,
\* current_version); status 'pending', progress_pct 0 by default.
create_firmware_update(t, b) ==
    Append(t, [bin_id |-> b, status |-> "pending", progress_pct |-> 0,
               completed_at |-> NullTs])

\* the status UPDATE without `AND status NOT IN ('completed', 'failed')`
update_firmware_progress_any_row(t, b, progress_pct, status, accepted) ==
    LET rows == {n \in DOMAIN t : t[n].bin_id = b}
    IN IF status = NULL \/ ~accepted \/ rows = {}
       THEN t
       ELSE [t EXCEPT ![SetMax(rows)] =
                [@ EXCEPT !.progress_pct = progress_pct, !.status = status,
                          !.completed_at = IF status \in Terminal THEN NOW ELSE NullTs]]

\* db.py update_firmware_progress.  With a status: UPDATE ... SET
\* progress_pct, status, completed_at WHERE bin_id = %s AND status NOT IN
\* ('completed', 'failed') ORDER BY started_at DESC LIMIT 1.  PostgreSQL's
\* UPDATE has no ORDER BY / LIMIT: an engine that rejects the statement
\* (accepted FALSE) raises and writes nothing, one that takes it updates the
\* newest row that is not terminal.  Without a status: UPDATE ... SET
\* progress_pct WHERE bin_id = %s AND status = 'in_progress'.
update_firmware_progress(t, b, progress_pct, status, accepted) ==
    IF status = NULL
    THEN [n \in DOMAIN t |->
             IF t[n].bin_id = b /\ t[n].status = "in_progress"
             THEN [t[n] EXCEPT !.progress_pct = progress_pct]
             ELSE t[n]]
    ELSE LET rows == {n \in DOMAIN t : t[n].bin_id = b /\ t[n].status \notin Terminal}
         IN IF ~accepted \/ rows = {}
            THEN t
            ELSE [t EXCEPT ![SetMax(rows)] =
                     [@ EXCEPT !.progress_pct = progress_pct, !.status = status,
                               !.completed_at = IF status \in Terminal THEN NOW ELSE NullTs]]

\* What the firmware handlers leave alone.
OnlyFirmware ==
    /\ UNCHANGED device_heartbeats /\ telemetry' = {} /\ UNCHANGED latest_telemetry
    /\ UNCHANGED <<command_acknowledgments, pending, stale_devices, bins, shadow_vars,
                   zone_vars, collection_sessions>>

\* mqtt_commands.send_firmware_update: db.create_firmware_update, then
\* send_command "firmware_update".
send_firmware_update(i, b, o) ==
    /\ Len(firmware_updates) < MaxUpdates
    /\ firmware_updates' = create_firmware_update(firmware_updates, b)
    /\ send_command(i, b, "firmware_update", Params("firmware", NoCommandId), o)
    /\ received' = {}
    /\ OnlyFirmware

\* mqtt_ingest.handle_firmware_status: progress_pct and status of the
\* payload go to db.update_firmware_progress; an exception is logged.
handle_firmware_status(b, payload, accepted) ==
    /\ received' = {Inbound(b, "firmware_status", payload)}
    /\ firmware_updates' = update_firmware_progress(firmware_updates, b,
                               payload.progress_pct, payload.status, accepted)
    /\ published' = {} /\ commands_log' = {} /\ send_result' = "none"
    /\ UNCHANGED command_client
    /\ OnlyFirmware

\* ------------------------------------------------------------------ clock
\* One time unit passes: every stored timestamp is one unit further back.
Tick ==
    /\ command_acknowledgments' =
           [id \in CommandIds |->
               IF Exists(command_acknowledgments, id)
               THEN [command_acknowledgments[id] EXCEPT !.sent_at = Aged(@)]
               ELSE NoRow]
    /\ bins' = [b \in BinIds |->
                   IF Registered(bins, b)
                   THEN [bins[b] EXCEPT !.last_seen = Aged(@)]
                   ELSE NoBin]
    /\ published' = {} /\ commands_log' = {} /\ send_result' = "none" /\ UNCHANGED device_heartbeats
    /\ latest_telemetry' =
           [b \in BinIds |-> [latest_telemetry[b] EXCEPT !.ts = Aged(@)]]
    /\ UNCHANGED <<command_client, pending, stale_devices>>
    /\ received' = {} /\ telemetry' = {}
    /\ UNCHANGED <<shadow_vars, zone_vars, collection_sessions, firmware_updates>>

\* ------------------------------------------------------------------- init
\* Every table but bins empty, no client, nothing in progress.
InitButBins ==
    /\ command_acknowledgments = [id \in CommandIds |-> NoRow]
    /\ commands_log = {}
    /\ command_client = [i \in Instances |-> "None"]
    /\ pending = [i \in Instances |-> {}]
    /\ published = {}
    /\ device_heartbeats = <<>>
    /\ stale_devices = [i \in Instances |-> {}]
    /\ received = {}
    /\ device_shadow = [b \in BinIds |-> NoShadow]
    /\ shadow_delta = NoDelta
    /\ zone_run = [i \in Instances |-> NoRun]
    /\ zone_report = [i \in Instances |-> NoReport]
    /\ collection_sessions = <<>>
    /\ firmware_updates = <<>>
    /\ telemetry = {}
    /\ latest_telemetry = [b \in BinIds |-> NoTelemetry]
    /\ send_result = "none"

Init ==
    /\ bins = [b \in BinIds |-> NoBin]
    /\ InitButBins

\* A bins table as the stale query may find it: the rows of Bins hold any
\* values of the columns it reads.
BinRows ==
    [last_seen : {NullTs} \cup (0..Horizon), device_status : {"online", "offline"},
     sleep_mode : BOOLEAN, user_id : {"user"}]
InitAnyBins ==
    /\ \E f \in [Bins -> BinRows \cup {NoBin}] :
           bins = [b \in BinIds |-> IF b \in Bins THEN f[b] ELSE NoBin]
    /\ InitButBins

\* ----------------------------------------------------------- environment
\* Callers, devices and the scheduler: which instance runs an operation, on
\* which bin, and what the transport does (O: the outcomes allowed).
Dispatch(I, B, O) ==
    \E i \in I, b \in B, c \in CommandTypes, p \in Payloads, o \in O :
        send_command_with_ack(i, b, c, p, o)
Ack(B) ==
    \E b \in B, id \in {NoCommandId} \cup CommandIds, s \in BOOLEAN, e \in AckErrors :
        handle_command_ack(b, id, s, e)
SweepRead(I) == \E i \in I, a \in MaxAges : RetryRead(i, a)
SweepStep(I, O) == \E i \in I : \E cmd \in pending[i], o \in O : RetryStep(i, cmd, o)
RegisterIn(B) == \E b \in B : RegisterDevice(b)
Register == RegisterIn(Bins)
\* rssi a heartbeat may carry (Absent: none)
Rssis == {Absent, -70}
HeartbeatOf(R) == \E b \in Bins, rssi \in R : handle_heartbeat(b, [rssi |-> rssi])
Heartbeat == HeartbeatOf({-70})
\* The single-bin endpoints (api.py wake_up_bin, sleep_bin): nothing else runs.
OnlyBinCommand ==
    /\ UNCHANGED device_heartbeats
    /\ UNCHANGED <<command_acknowledgments, pending, stale_devices>>
    /\ NothingElse
WakeUp(I) ==
    \E i \in I, b \in Bins, o \in AllOutcomes : wake_up_bin(i, b, o) /\ OnlyBinCommand
Sleep(I) ==
    \E i \in I, b \in Bins, o \in AllOutcomes : sleep_bin(i, b, o) /\ OnlyBinCommand
\* Telemetry a device may send: ts missing, unparseable or of any age;
\* fill_pct missing, in range or out of range.
TelemetryTs == {NullTs, BadTs} \cup (0..Horizon)
FillPcts == {Absent, 42, 101}
\* device_status of a row inserted without one (the column default)
StatusDefaults == {"offline", "unknown"}
TelemetryOf(B, F) ==
    \E b \in B, ts \in TelemetryTs, f \in F, d \in StatusDefaults :
        handle_telemetry(b, [ts |-> ts, fill_pct |-> f], d)
Telemetry(B) == TelemetryOf(B, FillPcts)
\* fill levels at and beyond both ends of the range
EdgeFillPcts == {-5, 0, 100}
NotJson(B) == \E b \in B : on_message_undecodable(b, "telemetry")
\* Documents a device reports or an operator asks for.
Documents ==
    {Doc(k, v) : k \in {"fill_pct", "sleep"}, v \in Values}
        \cup {[Doc("fill_pct", 42) EXCEPT !["sleep"] = 1]}
ShadowReport(B) == \E b \in B, d \in Documents : handle_shadow_reported(b, d)
SetDesired(I, B) ==
    \E i \in I, b \in B, d \in Documents, o \in AllOutcomes : update_device_shadow(i, b, d, o)
Provision(B) ==
    \E b \in B, located \in BOOLEAN, d \in StatusDefaults : provision_device(b, located, d)
GetDelta(B) == \E b \in B : get_device_shadow(b)
\* Operators calling the collection endpoints E on the instances I; the
\* transport does O.
Collection(I, E) == \E i \in I, e \in E, z \in Zones : BeginCollection(i, e, z)
FanOut(I, O) == \E i \in I, o \in O : ZoneStep(i, o)
FanOutEnd(I, O) == \E i \in I, o \in O : ZoneFinish(i, o)
SessionUpdate(I) == \E i \in I : SessionWrite(i)
\* Firmware status a device may report: any progress, no status or any
\* status string; the database engine takes the status UPDATE or rejects it.
ProgressPcts == {0, 50, 100}
FirmwareStatuses == {NULL, "downloading", "installing", "in_progress", "completed", "failed"}
InitiateUpdate(I, B) == \E i \in I, b \in B, o \in AllOutcomes : send_firmware_update(i, b, o)
FirmwareStatus(B) ==
    \E b \in B, p \in ProgressPcts, st \in FirmwareStatuses, accepted \in BOOLEAN :
        handle_firmware_status(b, [progress_pct |-> p, status |-> st], accepted)
StaleCheckRead == \E i \in Instances, t \in MaxAges : StaleRead(i, t)
StaleCheckStep == \E i \in Instances : \E b \in stale_devices[i] : StaleStep(i, b)

\* Command delivery: one service instance dispatches and sweeps, devices
\* acknowledge in any way, the transport does anything.
NextCmd ==
    \/ Dispatch({"i1"}, {"B001"}, AllOutcomes)
    \/ Ack({"B001"})
    \/ SweepRead({"i1"})
    \/ SweepStep({"i1"}, AllOutcomes)
    \/ Tick
SpecCmd == Init /\ [][NextCmd]_vars

\* Two service instances sweep the same table concurrently.
NextSweeps ==
    \/ Dispatch({"i1"}, {"B001"}, AllOutcomes)
    \/ SweepRead(Instances)
    \/ SweepStep(Instances, AllOutcomes)
    \/ Tick
SpecSweeps == Init /\ [][NextSweeps]_vars

\* No ack ever arrives and every publish succeeds.
NextReliable ==
    \/ Dispatch({"i1"}, {"B001"}, {"ok"})
    \/ SweepRead({"i1"})
    \/ SweepStep({"i1"}, {"ok"})
    \/ Tick
SpecReliable == Init /\ [][NextReliable]_vars

\* No ack ever arrives; the scheduler keeps running the sweep and time passes.
NextNoAck ==
    \/ Dispatch({"i1"}, {"B001"}, AllOutcomes)
    \/ SweepRead({"i1"})
    \/ SweepStep({"i1"}, AllOutcomes)
    \/ Tick
SpecFairSweep ==
    /\ Init /\ [][NextNoAck]_vars
    /\ WF_vars(Tick) /\ WF_vars(SweepRead({"i1"})) /\ WF_vars(SweepStep({"i1"}, AllOutcomes))

\* Liveness monitor: heartbeats, sleep/wake commands and stale checks of two
\* service instances.
NextLive ==
    \/ Register
    \/ Heartbeat
    \/ WakeUp({"i1"})
    \/ Sleep({"i1"})
    \/ StaleCheckRead
    \/ StaleCheckStep
    \/ Tick
SpecLive == Init /\ [][NextLive]_vars

\* Telemetry ingestion: devices are registered, send telemetry of any
\* shape, and two service instances run the stale check while time passes.
NextTelemetry ==
    \/ Register
    \/ Telemetry(Bins)
    \/ StaleCheckRead
    \/ StaleCheckStep
    \/ Tick
SpecTelemetry == Init /\ [][NextTelemetry]_vars

\* Device shadow: one device reports (shadow messages, telemetry), operators
\* set desired state, provision devices and read the delta.
NextShadow ==
    \/ Register
    \/ ShadowReport({"B001"})
    \/ Telemetry({"B001"})
    \/ SetDesired({"i1"}, {"B001"})
    \/ Provision({"B001"})
    \/ GetDelta({"B001"})
SpecShadow == Init /\ [][NextShadow]_vars

\* Zone fan-out: one instance starts and ends collections of a zone of up
\* to five bins; the transport does anything.
NextZone ==
    \/ RegisterIn(BinIds)
    \/ Collection({"i1"}, {"start", "end"})
    \/ FanOut({"i1"}, AllOutcomes)
    \/ FanOutEnd({"i1"}, AllOutcomes)
    \/ SessionUpdate({"i1"})
SpecZone == Init /\ [][NextZone]_vars

\* Collection sessions: operators call the four collection endpoints on two
\* service instances, in any order and concurrently; the zone has at most
\* one bin and every publish succeeds.
NextSessions ==
    \/ RegisterIn({"B001"})
    \/ Collection(Instances, {"start", "check", "finish", "end"})
    \/ FanOut(Instances, {"ok"})
    \/ FanOutEnd(Instances, {"ok"})
    \/ SessionUpdate(Instances)
SpecSessions == Init /\ [][NextSessions]_vars

\* Firmware rollout: an operator starts update jobs for one device, which
\* reports status in any order.
NextFirmware ==
    \/ InitiateUpdate({"i1"}, {"B001"})
    \/ FirmwareStatus({"B001"})
SpecFirmware == Init /\ [][NextFirmware]_vars

\* The stale query on any bins table: two service instances run the stale
\* check while time passes.
NextStaleQuery ==
    \/ StaleCheckRead
    \/ StaleCheckStep
    \/ Tick
SpecStaleQuery == InitAnyBins /\ [][NextStaleQuery]_vars

\* Delivery to a device the liveness monitor follows: one instance
\* dispatches to it and sweeps, it is woken up and sends heartbeats, the stale
\* check runs on two instances; every publish succeeds and no ack arrives.
NextOffline ==
    \/ RegisterIn({"B001"})
    \/ Heartbeat
    \/ WakeUp({"i1"})
    \/ Dispatch({"i1"}, {"B001"}, {"ok"})
    \/ SweepRead({"i1"})
    \/ SweepStep({"i1"}, {"ok"})
    \/ StaleCheckRead
    \/ StaleCheckStep
    \/ Tick
SpecOffline == Init /\ [][NextOffline]_vars

\* Heartbeat ingestion: devices are registered, woken up and put to sleep,
\* send heartbeats with or without metrics, and two service instances run
\* the stale check while time passes.
NextHeartbeat ==
    \/ Register
    \/ HeartbeatOf(Rssis)
    \/ WakeUp({"i1"})
    \/ Sleep({"i1"})
    \/ StaleCheckRead
    \/ StaleCheckStep
    \/ Tick
SpecHeartbeat == Init /\ [][NextHeartbeat]_vars

\* Telemetry of any shape, in range, at and beyond the ends of the range,
\* or not JSON at all, from one device that may be registered, while two
\* instances run the stale check and time passes.
NextMalformed ==
    \/ RegisterIn({"B001"})
    \/ TelemetryOf({"B001"}, FillPcts \cup EdgeFillPcts)
    \/ NotJson({"B001"})
    \/ StaleCheckRead
    \/ StaleCheckStep
    \/ Tick
SpecMalformed == Init /\ [][NextMalformed]_vars

\* Retries: commands to two devices, swept by two service instances
\* concurrently; a publish succeeds or is rejected, and no ack arrives.
NextRetry ==
    \/ Dispatch({"i1"}, Bins, {"ok", "rejected"})
    \/ SweepRead(Instances)
    \/ SweepStep(Instances, {"ok", "rejected"})
    \/ Tick
SpecRetry == Init /\ [][NextRetry]_vars

\* The listener beside the sweep: one instance dispatches to a registered
\* device and sweeps, while the device sends acks, heartbeats and
\* telemetry; every publish succeeds.
NextInbound ==
    \/ RegisterIn({"B001"})
    \/ Dispatch({"i1"}, {"B001"}, {"ok"})
    \/ SweepRead({"i1"})
    \/ SweepStep({"i1"}, {"ok"})
    \/ \E id \in CommandIds, s \in BOOLEAN : handle_command_ack("B001", id, s, NULL)
    \/ handle_heartbeat("B001", [rssi |-> -70])
    \/ \E ts \in {0, BadTs} : handle_telemetry("B001", [ts |-> ts, fill_pct |-> 42], "offline")
    \/ Tick
SpecInbound == Init /\ [][NextInbound]_vars

\* Two devices: commands are dispatched to either and each device acks on
\* its own ack topic, naming any command id.
NextCross ==
    \/ Dispatch({"i1"}, Bins, {"ok"})
    \/ Ack(Bins)
    \/ Tick
SpecCross == Init /\ [][NextCross]_vars

\* A collection round: one instance starts one session and runs the other
\* collection endpoints on it, while two devices of the zone send up to two
\* telemetry messages each (the first registers the device) and time
\* passes; every publish succeeds.
CollectFillPcts == {70, 71}
NextCollect ==
    \/ \E b \in Bins, f \in CollectFillPcts :
           /\ device_shadow[b].version < 2
           /\ handle_telemetry(b, [ts |-> NOW, fill_pct |-> f], "offline")
    \/ collection_sessions = <<>> /\ Collection({"i1"}, {"start"})
    \/ Collection({"i1"}, {"check", "finish", "end"})
    \/ FanOut({"i1"}, {"ok"})
    \/ FanOutEnd({"i1"}, {"ok"})
    \/ SessionUpdate({"i1"})
    \/ Tick
SpecCollect == Init /\ [][NextCollect]_vars

\* ================================================================ claims
Row(id) == command_acknowledgments[id]
Created(id) == Exists(command_acknowledgments, id)
InSweep(id) == \E i \in Instances : \E c \in pending[i] : c.command_id = id

\* C1: a command's status only moves pending -> acknowledged or pending ->
\* failed, the one change out of a terminal status being failed ->
\* acknowledged; an acknowledged command never becomes failed or pending.
C1_StatusMonotone ==
    [][\A id \in CommandIds :
          Created(id) =>
              LET s == Row(id).status
                  s2 == command_acknowledgments'[id].status
              IN \/ s2 = s
                 \/ s = "pending" /\ s2 \in {"acknowledged", "failed"}
                 \/ s = "failed" /\ s2 = "acknowledged"]_vars

\* C2: with no ack and every publish succeeding, a command that has been
\* retried max_retries times and is not being swept is failed
\* (three sweeps => status failed, retry_count 3).
C2_ExhaustedIsFailed ==
    \A id \in CommandIds :
        (Created(id) /\ Row(id).retry_count = Row(id).max_retries /\ ~InSweep(id))
            => Row(id).status = "failed"

\* C3: retry_count never exceeds max_retries, also when two instances sweep
\* the same pending commands concurrently.
C3_RetryBounded ==
    \A id \in CommandIds : Created(id) => Row(id).retry_count <= Row(id).max_retries

\* C4: a sweep iteration over a command whose acknowledgment has been recorded
\* since the sweep read it publishes nothing and leaves the record unchanged.
C4_AckedNotResent ==
    [][\A i \in Instances : \A cmd \in pending[i] :
          (Row(cmd.command_id).ack_received_at # NullTs /\ cmd \notin pending'[i])
              => /\ published' = {}
                 /\ command_acknowledgments'[cmd.command_id] = Row(cmd.command_id)]_vars

\* C5: once a stale check and a heartbeat for a device have both completed,
\* the device is offline only if its last_seen is NULL or older than the
\* staleness threshold.
C5_NewerMessageWins ==
    \A b \in Bins :
        (Registered(bins, b) /\ (\A i \in Instances : b \notin stale_devices[i])
            /\ bins[b].device_status = "offline")
            => (bins[b].last_seen = NullTs \/ \E t \in MaxAges : Before(bins[b].last_seen, t))

\* C6: no step changes the status or the error message of a command that is
\* already acknowledged, whatever a later ack carries.
C6_AckOnAcknowledgedNoop ==
    [][\A id \in CommandIds :
          (Created(id) /\ Row(id).status = "acknowledged")
              => /\ command_acknowledgments'[id].status = "acknowledged"
                 /\ command_acknowledgments'[id].error_message = Row(id).error_message]_vars

\* C7: from any reachable command table, acknowledging a command twice with
\* the same ack leaves the same status, error message and retry_count as
\* acknowledging it once.
AckState(r) == IF r = NoRow THEN <<"absent">>
               ELSE <<r.status, r.error_message, r.retry_count>>
C7_AckIdempotent ==
    \A id \in CommandIds, s \in BOOLEAN, e \in AckErrors :
        LET once == acknowledge_command(command_acknowledgments, id, s, e)
            twice == acknowledge_command(once, id, s, e)
        IN \A k \in CommandIds : AckState(twice[k]) = AckState(once[k])
\* a command that was retried and then acknowledged with success = false
C7_Witness ==
    \E id \in CommandIds :
        /\ Created(id) /\ Row(id).ack_received_at # NullTs
        /\ Row(id).status = "failed" /\ Row(id).retry_count > 0

\* C8: sweepPending(maxAge) is exactly the pending commands older than
\* maxAge with retry_count < max_retries, and every row a sweep holds was
\* read pending, older than the age and with retry_count < max_retries.
C8_SweepPendingExact ==
    /\ \A a \in MaxAges :
           get_pending_commands(command_acknowledgments, a) =
               {id \in CommandIds : /\ Created(id)
                                    /\ Row(id).status = "pending"
                                    /\ Row(id).sent_at # NullTs /\ Row(id).sent_at > a
                                    /\ Row(id).retry_count < Row(id).max_retries}
    /\ \A i \in Instances : \A c \in pending[i] :
           /\ c.status = "pending"
           /\ c.retry_count < c.max_retries
           /\ \E a \in MaxAges : c.sent_at > a
\* a sweep returned one command and left out one that is terminal or exhausted
C8_Witness ==
    \E i \in Instances, id \in CommandIds :
        /\ pending[i] # {} /\ ~InSweep(id) /\ Created(id)
        /\ Row(id).sent_at > 0
        /\ (Row(id).status # "pending" \/ Row(id).retry_count >= Row(id).max_retries)

\* C9: a dispatch persists the record with retry_count 0, pending when the
\* publish succeeded and failed when it did not.
C9_PublishFailureMarksFailed ==
    [][\A id \in CommandIds :
          (~Created(id) /\ Exists(command_acknowledgments', id))
              => /\ command_acknowledgments'[id].retry_count = 0
                 /\ command_acknowledgments'[id].status =
                        IF published' # {} THEN "pending" ELSE "failed"]_vars

\* C10: under fair sweeps every command eventually reaches a terminal status.
C10_EventuallyTerminal ==
    \A id \in CommandIds :
        Created(id) ~> (Created(id) /\ Row(id).status \in {"acknowledged", "failed"})

C12_DeltaExact ==
    shadow_delta # NoDelta =>
        LET reported == device_shadow[shadow_delta.bin_id].reported_state
            desired == device_shadow[shadow_delta.bin_id].desired_state
            delta == shadow_delta.delta
            Mismatch(k) == Has(desired, k) /\ (~Has(reported, k) \/ reported[k] # desired[k])
        IN /\ \A k \in Keys : Has(delta, k) <=> Mismatch(k)
           /\ \A k \in Keys : Has(delta, k) => delta[k] = desired[k]
           /\ shadow_delta.has_delta <=> \E k \in Keys : Mismatch(k)
           /\ (reported = Doc("fill_pct", 42)
                 /\ desired = [Doc("fill_pct", 42) EXCEPT !["sleep"] = 1])
                  => delta = Doc("sleep", 1)
\* The delta was read for reported {fill_pct: 42}, desired {fill_pct: 42, sleep: true}.
C12_Witness ==
    /\ shadow_delta # NoDelta
    /\ device_shadow[shadow_delta.bin_id].reported_state = Doc("fill_pct", 42)
    /\ device_shadow[shadow_delta.bin_id].desired_state
           = [Doc("fill_pct", 42) EXCEPT !["sleep"] = 1]
    /\ shadow_delta.delta = Doc("sleep", 1)

ReportedState(t, b) == IF HasShadow(t, b) THEN t[b].reported_state ELSE EmptyDoc

\* C13: a device's reported_state changes only in a step that handles a
\* shadow report or telemetry of that device; setDesired, provisioning and
\* every other server-side operation leave it as it was.
C13_ReportedOnlyByDevice ==
    [][\A b \in Bins :
          ReportedState(device_shadow', b) # ReportedState(device_shadow, b)
              => \E m \in received' :
                    m.bin_id = b /\ m.message_type \in {"shadow", "telemetry"}]_vars

\* The step applied a reportState (shadow report, valid telemetry,
\* provisioning) or a setDesired to the shadow of b.
ShadowMutated(m, b) ==
    /\ m.bin_id = b
    /\ \/ m.message_type \in {"shadow", "desired", "provision"}
       \/ m.message_type = "telemetry" /\ ValidTelemetry(m.payload)

\* C14: every reportState and setDesired applied to an existing shadow
\* raises its version by exactly one, and nothing else changes the version:
\* it never decreases and counts the mutations since creation.
C14_VersionCountsMutations ==
    [][\A b \in Bins :
          HasShadow(device_shadow, b) =>
              device_shadow'[b].version =
                  device_shadow[b].version
                      + (IF \E m \in received' : ShadowMutated(m, b) THEN 1 ELSE 0)]_vars
\* A setDesired was just applied to a shadow that existed: it is the second
\* mutation since the shadow was created with version 1.
C14_Witness ==
    \E m \in received :
        /\ m.message_type = "desired"
        /\ device_shadow[m.bin_id].version = 3

\* The instance is inside the loop of wake_up_zone or sleep_zone.
InFanOut(run) == run # NoRun /\ run.endpoint \in {"start", "end"}

C16_RecordPerSucceededMember ==
    \A i \in Instances :
        (zone_report[i] # NoReport /\ zone_report[i].command = "wake_up")
            => Cardinality({id \in CommandIds : Created(id)}) = zone_report[i].succeeded

\* Position of a status in started -> checked -> finished -> ended.
Phase(status) ==
    CASE status = "started" -> 1
      [] status = "checked" -> 2
      [] status = "finished" -> 3
      [] status = "ended" -> 4

\* C17: the status of a collection session never moves backward along
\* started -> checked -> finished -> ended (no check after finish), and an
\* ended session never changes.
C17_SessionForwardOnly ==
    [][\A n \in DOMAIN collection_sessions :
          Phase(collection_sessions'[n].status) >= Phase(collection_sessions[n].status)]_vars

\* C18: a zone never has two sessions that are not ended, also when start
\* requests run concurrently.
C18_OneActiveSessionPerZone ==
    \A z \in Zones :
        Cardinality({n \in DOMAIN collection_sessions :
                        /\ collection_sessions[n].zone_id = z
                        /\ collection_sessions[n].status # "ended"}) <= 1

\* C19: once a firmware update is completed or failed, no status report of
\* the device changes its status or its progress.
C19_TerminalSticky ==
    [][\A n \in DOMAIN firmware_updates :
          firmware_updates[n].status \in Terminal
              => /\ firmware_updates'[n].status = firmware_updates[n].status
                 /\ firmware_updates'[n].progress_pct = firmware_updates[n].progress_pct]_vars
\* A "downloading" report at 0% was just handled for a device whose updates
\* are all terminal: it reached them terminal and left them so.
C19_Witness ==
    \E m \in received :
        /\ m.message_type = "firmware_status"
        /\ m.payload.status = "downloading"
        /\ m.payload.progress_pct = 0
        /\ \E n \in DOMAIN firmware_updates :
              /\ firmware_updates[n].bin_id = m.bin_id
              /\ firmware_updates[n].progress_pct = 100
        /\ \A n \in DOMAIN firmware_updates :
              firmware_updates[n].bin_id = m.bin_id
                  => firmware_updates[n].status \in Terminal

\* C20: for every timeout, the devices get_devices_needing_heartbeat selects
\* are exactly those that are awake (sleep_mode false), not offline, and
\* whose last_seen is null or older than the timeout.
C20_FindStaleExact ==
    \A timeout \in MaxAges :
        \A b \in BinIds :
            b \in get_devices_needing_heartbeat(bins, timeout)
                <=> /\ Registered(bins, b)
                    /\ ~bins[b].sleep_mode
                    /\ bins[b].device_status # "offline"
                    /\ (bins[b].last_seen = NullTs \/ bins[b].last_seen > timeout)
\* A stale check read an awake online device that was never seen and one
\* last seen before the timeout, and left out a sleeping one that is as old.
C20_Witness ==
    \E i \in Instances, b \in Bins, asleep \in Bins :
        /\ b \in stale_devices[i]
        /\ ~bins[b].sleep_mode /\ bins[b].device_status = "online"
        /\ bins[b].last_seen = NullTs
        /\ asleep \notin stale_devices[i]
        /\ Registered(bins, asleep) /\ bins[asleep].sleep_mode
        /\ bins[asleep].device_status = "online" /\ bins[asleep].last_seen = Horizon

C22_HeartbeatAppendOnly ==
    [][/\ \A m \in received' :
             (m.message_type = "heartbeat" /\ Registered(bins, m.bin_id))
                 => /\ device_heartbeats' =
                           Append(device_heartbeats,
                                  [bin_id |-> m.bin_id, rssi |-> m.payload.rssi])
                    /\ bins'[m.bin_id].device_status = "online"
                    /\ bins'[m.bin_id].last_seen = NOW
       /\ Len(device_heartbeats') >= Len(device_heartbeats)
       /\ \A n \in DOMAIN device_heartbeats : device_heartbeats'[n] = device_heartbeats[n]
       /\ Len(device_heartbeats') > Len(device_heartbeats)
              => \E m \in received' : m.message_type = "heartbeat"]_vars
\* A second heartbeat of a device was just handled: the log holds its first
\* entry, with other metrics, before the new one.
C22_Witness ==
    \E m \in received :
        /\ m.message_type = "heartbeat"
        /\ Len(device_heartbeats) = 2
        /\ device_heartbeats[1] = [bin_id |-> m.bin_id, rssi |-> Absent]
        /\ device_heartbeats[2] = [bin_id |-> m.bin_id, rssi |-> m.payload.rssi]
        /\ m.payload.rssi # Absent
        /\ bins[m.bin_id].device_status = "online" /\ bins[m.bin_id].last_seen = NOW

\* A telemetry message the listener drops: not JSON, fill_pct missing or
\* outside [0, 100], ts missing or unparseable.
Malformed(payload) ==
    \/ "decoded" \in DOMAIN payload
    \/ payload.fill_pct = Absent
    \/ payload.fill_pct < 0
    \/ payload.fill_pct > 100
    \/ payload.ts \in {NullTs, BadTs}

\* C23: handling a malformed telemetry message changes no device, telemetry,
\* shadow or other record, and a well-formed one is handled as ever: its
\* telemetry row is inserted and its device is online.
C23_MalformedDropped ==
    [][\A m \in received' :
          m.message_type = "telemetry" =>
              IF Malformed(m.payload)
              THEN /\ telemetry' = {}
                   /\ UNCHANGED <<bins, device_shadow, device_heartbeats,
                                  command_acknowledgments, collection_sessions,
                                  firmware_updates>>
              ELSE /\ telemetry' = {[ts |-> m.payload.ts, bin_id |-> m.bin_id,
                                     fill_pct |-> m.payload.fill_pct]}
                   /\ bins'[m.bin_id].device_status = "online"]_vars
\* A message with fill_pct 101 and a good timestamp was just dropped: its
\* device, registered and never seen, is still offline and has no shadow.
C23_Witness ==
    \E m \in received :
        /\ m.message_type = "telemetry"
        /\ "fill_pct" \in DOMAIN m.payload
        /\ m.payload.fill_pct = 101 /\ m.payload.ts = NOW
        /\ Registered(bins, m.bin_id)
        /\ bins[m.bin_id].device_status = "offline"
        /\ bins[m.bin_id].last_seen = NullTs
        /\ ~HasShadow(device_shadow, m.bin_id)
        /\ telemetry = {}

\* C24: a step of a sweep takes exactly the command it visits off the
\* sweep's list, however its processing ends: the commands not yet visited
\* stay to be processed in that run.
C24_FailureIsolated ==
    [][\A i \in Instances : \A cmd \in pending[i] :
          cmd \notin pending'[i] => pending'[i] = pending[i] \ {cmd}]_vars

\* C25: handling an ack whose command_id has no Command record creates no
\* record and changes no command, device or shadow record.
C25_UnknownAckNoop ==
    [][\A m \in received' :
          (/\ m.message_type = "ack"
           /\ m.payload.command_id \in CommandIds
           /\ ~Created(m.payload.command_id))
              => /\ ~Exists(command_acknowledgments', m.payload.command_id)
                 /\ UNCHANGED <<command_acknowledgments, bins, device_shadow>>]_vars
\* An ack for a command_id without a record was just handled while another
\* command is pending: that command is as it was dispatched.
C25_Witness ==
    \E m \in received, id \in CommandIds :
        /\ m.message_type = "ack"
        /\ m.payload.command_id \in CommandIds
        /\ ~Created(m.payload.command_id)
        /\ Created(id) /\ Row(id).status = "pending" /\ Row(id).ack_received_at = NullTs

\* C26: every call of send_command, with or without a Command record and
\* however the publish ends, appends the command to the audit log.
C26_DispatchAlwaysLogged ==
    [][send_result' # "none" => commands_log' # {}]_vars

\* C27: no call of send_command ends with an exception: it returns True or
\* False to its caller.
C27_DispatchNeverRaises == send_result # "raised"

\* C28: every message published for a command that has a Command record,
\* by its dispatch or by a retry of the sweep, carries the command_id of
\* that record.
C28_PublishedCarriesCommandId ==
    [][\A m \in published' :
          /\ m.params.command_id \in CommandIds
          /\ Exists(command_acknowledgments', m.params.command_id)
          /\ command_acknowledgments'[m.params.command_id].bin_id = m.bin_id
          /\ command_acknowledgments'[m.params.command_id].command_type = m.command]_vars

\* C29: no step sets a device offline whose sleep_mode is true when the
\* step is taken.
C29_SleepingNotMarkedOffline ==
    [][\A b \in Bins :
          (/\ Registered(bins, b)
           /\ bins[b].sleep_mode
           /\ bins[b].device_status # "offline")
              => bins'[b].device_status # "offline"]_vars

DeviceMessages == {"ack", "heartbeat", "telemetry", "shadow", "firmware_status"}

\* C31: a step that handles a message of a device publishes nothing and
\* leaves retry_count and sent_at of every command as they were.
C31_SweepSoleRetryTrigger ==
    [][\A m \in received' :
          m.message_type \in DeviceMessages
              => /\ published' = {}
                 /\ \A id \in CommandIds :
                        Created(id)
                            => /\ command_acknowledgments'[id].retry_count = Row(id).retry_count
                               /\ command_acknowledgments'[id].sent_at = Row(id).sent_at]_vars
\* A failed ack of a command that had been retried once was just handled:
\* the record is failed, and its retry_count and its sent_at, a time unit
\* ago, are those the sweep left.
C31_Witness ==
    \E m \in received :
        /\ m.message_type = "ack"
        /\ m.payload.command_id \in CommandIds
        /\ ~m.payload.success
        /\ Created(m.payload.command_id)
        /\ Row(m.payload.command_id).status = "failed"
        /\ Row(m.payload.command_id).retry_count = 1
        /\ Row(m.payload.command_id).sent_at = 1
        /\ published = {}

\* C32: a reportState (setDesired) of a registered device leaves in
\* reported_state (desired_state) the value of the partial for each key the
\* partial has and the previous value for every other key; on a device
\* without a shadow it leaves the partial itself.  Call after call this is
\* the shallow merge of the partials in call order.
C32_ShallowMergeInOrder ==
    [][\A m \in received' :
          (m.message_type \in {"shadow", "desired"} /\ Registered(bins, m.bin_id))
              => LET column == IF m.message_type = "shadow"
                               THEN "reported_state" ELSE "desired_state"
                     old == device_shadow[m.bin_id]
                     new == device_shadow'[m.bin_id]
                 IN  /\ new # NoShadow
                     /\ IF old = NoShadow
                        THEN new[column] = m.payload
                        ELSE \A k \in Keys :
                                 new[column][k] = IF m.payload[k] # Absent
                                                  THEN m.payload[k]
                                                  ELSE old[column][k]]_vars
\* A report of fill_pct alone was just merged into a shadow that had a
\* reported sleep and another fill_pct: sleep kept, fill_pct replaced.
C32_Witness ==
    \E m \in received :
        /\ m.message_type = "shadow"
        /\ m.payload = Doc("fill_pct", 1)
        /\ HasShadow(device_shadow, m.bin_id)
        /\ device_shadow[m.bin_id].version >= 3
        /\ device_shadow[m.bin_id].reported_state["fill_pct"] = 1
        /\ device_shadow[m.bin_id].reported_state["sleep"] = 1

\* C33: the shadow_delta message published by setDesired carries only keys
\* whose stored desired value differed from the requested one before the call.
C33_DeltaOnlyChangedKeys ==
    [][\A msg \in published' :
          msg.command = "shadow_delta"
              => \A k \in Keys :
                     Has(msg.params.payload, k)
                         => \/ ~HasShadow(device_shadow, msg.bin_id)
                            \/ device_shadow[msg.bin_id].desired_state[k]
                                   # msg.params.payload[k]]_vars

\* C35: an ack received on the ack topic of one device leaves the record of
\* every command dispatched to another device unchanged.
C35_AckOnlyFromRecipient ==
    [][\A m \in received' :
          m.message_type = "ack"
              => \A id \in CommandIds :
                     (Created(id) /\ Row(id).bin_id # m.bin_id)
                         => command_acknowledgments'[id] = Row(id)]_vars

\* C36: no step but the passing of time makes the last_seen of a device
\* older than it was, and a last_seen once set is never unset.
C36_LastSeenNeverBackward ==
    [][Tick \/ \A b \in BinIds :
                  (Registered(bins, b) /\ bins[b].last_seen # NullTs)
                      => /\ Registered(bins', b)
                         /\ bins'[b].last_seen # NullTs
                         /\ bins'[b].last_seen <= bins[b].last_seen]_vars

\* C37: a wake_up or sleep command whose publish failed leaves the
\* sleep_mode of every device as it was.
C37_SleepModeOnlyOnPublish ==
    [][(send_result' \in {"False", "raised"} /\ (WakeUp(Instances) \/ Sleep(Instances)))
           => \A b \in BinIds :
                  Registered(bins, b)
                      => bins'[b].sleep_mode = bins[b].sleep_mode]_vars

\* C39: no device has two firmware updates in a non-terminal phase.
C39_OneActiveUpdatePerDevice ==
    \A n1, n2 \in DOMAIN firmware_updates :
        (/\ firmware_updates[n1].bin_id = firmware_updates[n2].bin_id
         /\ firmware_updates[n1].status \notin Terminal
         /\ firmware_updates[n2].status \notin Terminal)
            => n1 = n2

\* A device seen within the window: its last_seen is set and no time unit
\* has passed over it.
RecentlySeen(b) == Registered(bins, b) /\ bins[b].last_seen = NOW
\* The endpoint of instance i reads the device state in this step / writes
\* the session it read in this step.
ReadsCounts(i) ==
    /\ zone_run[i] # NoRun /\ zone_run[i].stage = "loop"
    /\ zone_run'[i] # NoRun /\ zone_run'[i].stage = "write"
    /\ zone_run[i].endpoint \in {"check", "finish"}
WritesSession(i) ==
    /\ zone_run[i] # NoRun /\ zone_run[i].stage = "write"
    /\ zone_run'[i] = NoRun
    /\ zone_run[i].endpoint # "start"
    /\ zone_run[i].session \in DOMAIN collection_sessions

\* C34: the counts check and finish take are those of the device state they
\* read: bins_responded the number of zone devices seen within the window,
\* bins_collected that number less the responded devices whose latest fill
\* is above 70; and the write of each transition stores these counts, stamps
\* the timestamp of its own status and leaves the other timestamps and the
\* counts it does not take as they were.
C34_CountsAndStamps ==
    [][\A i \in Instances :
          /\ ReadsCounts(i)
                 => LET responded == Cardinality({b \in BinIds : RecentlySeen(b)})
                        missed == Cardinality({b \in BinIds :
                                      RecentlySeen(b) /\ latest_telemetry[b].fill_pct > 70})
                    IN /\ zone_run'[i].bins_responded = responded
                       /\ zone_run[i].endpoint = "finish"
                              => zone_run'[i].bins_collected = responded - missed
          /\ WritesSession(i)
                 => LET run == zone_run[i]
                        old == collection_sessions[run.session]
                        new == collection_sessions'[run.session]
                    IN CASE run.endpoint = "check" ->
                                new = [old EXCEPT !.status = "checked", !.checked_at = NOW,
                                                  !.bins_responded = run.bins_responded]
                         [] run.endpoint = "finish" ->
                                new = [old EXCEPT !.status = "finished", !.finished_at = NOW,
                                                  !.bins_responded = run.bins_responded,
                                                  !.bins_collected = run.bins_collected]
                         [] OTHER ->
                                new = [old EXCEPT !.status = "ended", !.ended_at = NOW]]_vars
\* A session was just finished in a zone of two devices, one seen a time
\* unit ago, the other within the window with a latest fill of 71: one
\* responded, none collected.
C34_Witness ==
    /\ zone_run["i1"] = NoRun
    /\ \E n \in DOMAIN collection_sessions :
           /\ collection_sessions[n].status = "finished"
           /\ collection_sessions[n].finished_at = NOW
           /\ collection_sessions[n].checked_at = NOW
           /\ collection_sessions[n].bins_total = 2
           /\ collection_sessions[n].bins_responded = 1
           /\ collection_sessions[n].bins_collected = 0
    /\ Registered(bins, "B001") /\ bins["B001"].last_seen = 1
    /\ Registered(bins, "B002") /\ bins["B002"].last_seen = NOW
    /\ latest_telemetry["B002"].fill_pct = 71

\* C38: in every session 0 <= bins_collected <= bins_responded <= bins_total.
C38_CountsOrdered ==
    \A n \in DOMAIN collection_sessions :
        /\ 0 <= collection_sessions[n].bins_collected
        /\ collection_sessions[n].bins_collected <= collection_sessions[n].bins_responded
        /\ collection_sessions[n].bins_responded <= collection_sessions[n].bins_total
====
